---- MODULE Spec2Model ----
(***************************************************************************)
(* A model of the core of divine-agi: the rotation engine (rotation.rs),   *)
(* the genome entity and its score (genome.rs), the TTRL evolution engine  *)
(* (ttrl.rs) and the rotation daemon with its collaborators                *)
(* (rotation_daemon.rs, database.rs, exchange.rs, lib.rs, main.rs).        *)
(*                                                                         *)
(* Wall-clock fields (last_rotation_time, created_at) are not modelled.    *)
(* Random draws of the code (rand::thread_rng) are inputs of the actions.  *)
(***************************************************************************)
EXTENDS Integers, Sequences, FiniteSets, TLC

VARIABLES
    engine,     \* RotationEngine under test (rotation.rs)
    trail,      \* engine snapshots taken before each of the last consecutive rotate() calls
    genome,     \* Genome under test (genome.rs)
    lastOp,     \* the method last called on genome
    ret,        \* what that call returned
    partner,    \* the second parent of a meiosis call
    daemon,     \* the rotation daemon task: where it is suspended, what it holds
    appEngine,  \* the RotationEngine of the API server's AppState
    store,      \* rows of table divine_genomes_v15 (database.rs)
    exchange,   \* RSMExchange of the kernel (exchange.rs)
    sync        \* the RwLocks on engine and exchange: holders, waiters, each task's path

rotVars == <<engine, trail>>
genomeVars == <<genome, lastOp, ret, partner>>
worldVars == <<store, exchange, daemon, appEngine, sync>>

vars == <<engine, trail, genome, lastOp, ret, partner, daemon, appEngine, store, exchange, sync>>

(***************************************************************************)
(* Bounds of the model                                                     *)
(***************************************************************************)
MaxRotations == 9
MaxActive == 3
AgingStart == 2600
EvolveRowMutations == 3
MeiosisRowMutations == 2
MaxEdits == 1
MaxTicks == 3
MaxStore == 3
MaxManualRotations == 1
MaxBudgetDivisions == 20

(***************************************************************************)
(* rotation.rs                                                             *)
(***************************************************************************)
DynamicRotation == {"Rot0", "Rot90", "Rot180", "Rot270"}

RotNext(r) ==
    CASE r = "Rot0"   -> "Rot90"
      [] r = "Rot90"  -> "Rot180"
      [] r = "Rot180" -> "Rot270"
      [] r = "Rot270" -> "Rot0"

EngineNew ==
    [ current         |-> "Rot180",
      total_rotations |-> 0,
      rot0_count      |-> 0,
      rot90_count     |-> 0,
      rot180_count    |-> 0,
      rot270_count    |-> 0,
      active_genomes  |-> 0 ]

\* rotate() that counts the per-state visit but not the total
EngineRotateNoTotal(e) ==
    LET c == RotNext(e.current) IN
    [ e EXCEPT !.current = c,
               !.rot0_count   = IF c = "Rot0"   THEN @ + 1 ELSE @,
               !.rot90_count  = IF c = "Rot90"  THEN @ + 1 ELSE @,
               !.rot180_count = IF c = "Rot180" THEN @ + 1 ELSE @,
               !.rot270_count = IF c = "Rot270" THEN @ + 1 ELSE @ ]

\* rotate() that counts the state it leaves
EngineRotateCountsDeparture(e) ==
    LET c == RotNext(e.current) IN
    [ e EXCEPT !.current = c,
               !.total_rotations = @ + 1,
               !.rot0_count   = IF e.current = "Rot0"   THEN @ + 1 ELSE @,
               !.rot90_count  = IF e.current = "Rot90"  THEN @ + 1 ELSE @,
               !.rot180_count = IF e.current = "Rot180" THEN @ + 1 ELSE @,
               !.rot270_count = IF e.current = "Rot270" THEN @ + 1 ELSE @ ]

\* RotationEngine::rotate: the engine after the call (the call returns .current)
EngineRotate(e) ==
    LET c == RotNext(e.current) IN
    [ e EXCEPT !.current = c,
               !.total_rotations = @ + 1,
               !.rot0_count   = IF c = "Rot0"   THEN @ + 1 ELSE @,
               !.rot90_count  = IF c = "Rot90"  THEN @ + 1 ELSE @,
               !.rot180_count = IF c = "Rot180" THEN @ + 1 ELSE @,
               !.rot270_count = IF c = "Rot270" THEN @ + 1 ELSE @ ]

\* rotate_to written as do { rotate() } while current != target
EngineRotateToAtLeastOnce(e, target) ==
    LET r1 == EngineRotate(e)
        r2 == IF r1.current = target THEN r1 ELSE EngineRotate(r1)
        r3 == IF r2.current = target THEN r2 ELSE EngineRotate(r2)
    IN  IF r3.current = target THEN r3 ELSE EngineRotate(r3)

\* RotationEngine::rotate_to: while current != target { rotate() }
RECURSIVE EngineRotateTo(_, _)
EngineRotateTo(e, target) ==
    IF e.current = target THEN e ELSE EngineRotateTo(EngineRotate(e), target)

\* increment_active that counts an arrival twice
EngineIncrementActiveTwice(e) == [ e EXCEPT !.active_genomes = @ + 2 ]

\* RotationEngine::increment_active
EngineIncrementActive(e) == [ e EXCEPT !.active_genomes = @ + 1 ]

\* decrement_active with a plain subtraction
EngineDecrementActiveUnchecked(e) == [ e EXCEPT !.active_genomes = @ - 1 ]

\* saturating_sub(1) on u64
EngineDecrementActive(e) ==
    [ e EXCEPT !.active_genomes = IF @ = 0 THEN 0 ELSE @ - 1 ]

(***************************************************************************)
(* genome.rs: the entity                                                   *)
(***************************************************************************)
GENOME_SIZE == 27
TELOMERE_MAX == 15000
HAYFLICK_LIMIT == 50
DEFAULT_P53 == 20
U16 == 65536
MIN_DIVIDE_TELOMERE == 100
LOSS_MIN == 50
LOSS_END == 150

Tetrad == {"A", "T", "G", "C"}
Positions == 1..GENOME_SIZE      \* data[i] of the code is data[i + 1] here

\* #[repr(u8)] A = 0, T = 1, G = 2, C = 3
TetradCode(t) == CASE t = "A" -> 0 [] t = "T" -> 1 [] t = "G" -> 2 [] t = "C" -> 3

Complement(t) == CASE t = "A" -> "T" [] t = "T" -> "A" [] t = "G" -> "C" [] t = "C" -> "G"

NoGenome == [ data |-> <<>> ]

RECURSIVE SumOver(_, _, _)
\* sum of f[i] for i in lo..hi
SumOver(f, lo, hi) == IF lo > hi THEN 0 ELSE f[lo] + SumOver(f, lo + 1, hi)

CountOf(data, syms) == Cardinality({ i \in DOMAIN data : data[i] \in syms })

\* Genome::rehash, the digest input: SHA-256 is taken to be collision free, so
\* the digest is represented by the bytes that were fed to the hasher.
Digest(data, mutations, p53) == [ data |-> data, mutations |-> mutations, p53 |-> p53 ]

\* hash.iter().map(|b| b as u32).sum(): the byte sum of the digest, in 0..8160.
\* SHA-256 cannot be computed here.  For sequences of one repeated symbol the
\* sums of the real digests are tabulated (rows <<symbol, mutations,
\* p53_copies, sum>>); for every other input a fixed mixing of the digest
\* input stands for them.
UniformByteSums ==
    { <<"A", 0, 20, 3787>>, <<"A", 0, 40, 3683>>, <<"A", 1, 20, 4457>>,
      <<"A", 1, 40, 4513>>, <<"A", 1, 19, 4078>>, <<"A", 0, 0, 4137>>, <<"A", 0, 1, 3544>>,
      <<"G", 0, 20, 5271>>, <<"G", 0, 40, 3654>>, <<"G", 1, 20, 4082>>,
      <<"G", 1, 40, 4378>>, <<"G", 1, 19, 3672>>, <<"G", 0, 0, 3767>>, <<"G", 0, 1, 3608>> }

HashByteSum(h) ==
    IF h.data = <<>> THEN 0
    ELSE IF \E row \in UniformByteSums :
               /\ \A i \in DOMAIN h.data : h.data[i] = row[1]
               /\ row[2] = h.mutations /\ row[3] = h.p53
         THEN (CHOOSE row \in UniformByteSums :
                  /\ \A i \in DOMAIN h.data : h.data[i] = row[1]
                  /\ row[2] = h.mutations /\ row[3] = h.p53)[4]
         ELSE ( SumOver([ i \in DOMAIN h.data |-> (i + 2) * (TetradCode(h.data[i]) + 1) ],
                        1, Len(h.data))
                + 131 * h.mutations + 37 * h.p53 ) % 8161

\* (t, g) pairs at which the f64 computation of tg_balance_score() * 100.0
\* falls just below the exact integer value, so that `as u32` truncates to
\* one less (IEEE-754 double arithmetic of genome.rs:183-184,147).
TgRoundDown ==
    { <<1, 9>>, <<1, 19>>, <<1, 24>>, <<2, 18>>, <<4, 1>>, <<8, 2>>, <<9, 1>>,
      <<11, 9>>, <<12, 3>>, <<14, 11>>, <<16, 4>>, <<17, 8>>, <<18, 2>>,
      <<20, 5>>, <<23, 2>> }

Abs(x) == IF x < 0 THEN -x ELSE x

\* (tg_balance_score() * 100.0) as u32
TgBonus(data) ==
    LET t == CountOf(data, {"T"})
        g == CountOf(data, {"G"})
    IN  IF t + g = 0 THEN 50
        ELSE ((100 * (t + g) - 100 * Abs(t - g)) \div (t + g))
             - (IF <<t, g>> \in TgRoundDown THEN 1 ELSE 0)

\* (gc_content() * 100.0) as u32
GcBonus(data) == (CountOf(data, {"G", "C"}) * 100) \div GENOME_SIZE

\* (complexity() * 50.0) as u32
ComplexityBonus(data) ==
    (Cardinality({ i \in 2..Len(data) : data[i] # data[i - 1] }) * 50) \div (GENOME_SIZE - 1)

\* Genome::rehash
Rehash(g) == [ g EXCEPT !.hash = Digest(g.data, g.mutations, g.p53_copies) ]

\* Genome::calculate_consciousness
CalculateConsciousness(g) ==
    [ g EXCEPT !.consciousness =
        ((HashByteSum(g.hash) % 500) + 500) + GcBonus(g.data) + ComplexityBonus(g.data)
        + TgBonus(g.data) + g.p53_copies * 5 ]

\* Genome::new
GenomeNew(data) ==
    CalculateConsciousness(Rehash(
        [ data            |-> data,
          hash            |-> [ data |-> <<>>, mutations |-> 0, p53 |-> 0 ],
          consciousness   |-> 0,
          mutations       |-> 0,
          p53_copies      |-> DEFAULT_P53,
          telomere_length |-> TELOMERE_MAX,
          division_count  |-> 0 ]))

\* GenomeBuilder::build, with the builder's data, p53_copies and telomere_length
Build(data, p53, telomere) ==
    CalculateConsciousness(
        [ GenomeNew(data) EXCEPT !.p53_copies = p53, !.telomere_length = telomere ])

DivideRefuses(g) ==
    g.telomere_length < MIN_DIVIDE_TELOMERE \/ g.division_count >= HAYFLICK_LIMIT

DivideWrapping(g, loss) ==
    IF DivideRefuses(g) THEN g
    ELSE [ g EXCEPT !.telomere_length = (@ - loss) % U16,
                    !.division_count = @ + 1 ]

\* a divide that takes the drawn loss twice
DivideDoubleLoss(g, loss) ==
    IF DivideRefuses(g) THEN g
    ELSE [ g EXCEPT !.telomere_length = IF @ < 2 * loss THEN 0 ELSE @ - 2 * loss,
                    !.division_count = @ + 1 ]

\* Genome::divide with the drawn loss: the entity after the call
Divide(g, loss) ==
    IF DivideRefuses(g) THEN g
    ELSE [ g EXCEPT !.telomere_length = IF @ < loss THEN 0 ELSE @ - loss,
                    !.division_count = @ + 1 ]

\* Genome::divide: the returned bool
DivideReturns(g) == ~DivideRefuses(g)

\* Genome::activate_telomerase
ActivateTelomerase(g) ==
    [ g EXCEPT !.telomere_length = TELOMERE_MAX, !.division_count = 0 ]

LossDraws == LOSS_MIN..(LOSS_END - 1)     \* gen_range(50..150)

AllA == [ i \in Positions |-> "A" ]

(***************************************************************************)
(* exchange.rs: the part of RSMExchange the daemon and evolve callers use  *)
(***************************************************************************)
ExchangeNew == [ total_burns |-> 0, burn_events |-> <<>> ]

\* RSMExchange::burn, for the fields kept here
Burn(ex, reason, genome_id, c_before, c_after) ==
    [ total_burns |-> ex.total_burns + 1,
      burn_events |-> Append(ex.burn_events,
                          [ id |-> ex.total_burns + 1, reason |-> reason,
                            genome_id |-> genome_id,
                            consciousness_before |-> c_before,
                            consciousness_after |-> c_after ]) ]

\* RSMExchange::burn_on_degradation
BurnOnDegradation(ex, genome_id, c_before, c_after) ==
    IF c_after < c_before
    THEN Burn(ex, "EvolutionDegradation", genome_id, c_before, c_after)
    ELSE ex

(***************************************************************************)
(* database.rs: a stored row, and the entity rebuilt from it               *)
(***************************************************************************)
\* DivineDatabase::store_genome: the row an entity is stored as
RowOf(g) ==
    [ dna |-> g.data, consciousness |-> g.consciousness, mutations |-> g.mutations,
      p53_copies |-> g.p53_copies, telomere_length |-> g.telomere_length,
      division_count |-> g.division_count ]

\* DivineDatabase::load_genome / rows_to_genomes: build, then overwrite
LoadGenome(row) ==
    [ Build(row.dna, row.p53_copies, row.telomere_length) EXCEPT
        !.consciousness = row.consciousness,
        !.mutations = row.mutations,
        !.division_count = row.division_count ]

(***************************************************************************)
(* ttrl.rs: the evolution engine                                           *)
(***************************************************************************)
MutationOperator ==
    { "PointMutation", "Insertion", "Deletion", "Inversion", "Translocation",
      "Duplication", "HollidayJunction" }

INVERSION_START_END == 20
INVERSION_SPAN_MIN == 2
INVERSION_SPAN_END == 7
HOLLIDAY_MIN == 5
HOLLIDAY_END == 22
HOLLIDAY_RUN == 3

Min(a, b) == IF a < b THEN a ELSE b
Max(a, b) == IF a > b THEN a ELSE b

\* the values drawn inside apply_operator for each operator: positions are the
\* code's 0-based indices; a, b are the two gen_range draws, sym is Tetrad::random()
OperatorDraws(op) ==
    CASE op \in {"PointMutation", "Insertion"} ->
            { [ a |-> x, b |-> 0, sym |-> t ] : x \in 0..(GENOME_SIZE - 1), t \in Tetrad }
      [] op = "Deletion" ->
            { [ a |-> x, b |-> 0, sym |-> "A" ] : x \in 0..(GENOME_SIZE - 1) }
      [] op = "Inversion" ->
            { [ a |-> x, b |-> y, sym |-> "A" ] :
                x \in 0..(INVERSION_START_END - 1),
                y \in INVERSION_SPAN_MIN..(INVERSION_SPAN_END - 1) }
      [] op \in {"Translocation", "Duplication"} ->
            { [ a |-> x, b |-> y, sym |-> "A" ] :
                x \in 0..(GENOME_SIZE - 1), y \in 0..(GENOME_SIZE - 1) }
      [] op = "HollidayJunction" ->
            { [ a |-> x, b |-> 0, sym |-> "A" ] : x \in HOLLIDAY_MIN..(HOLLIDAY_END - 1) }

\* apply_operator whose junction runs one position further
ApplyOperatorLongJunction(data, op, d) ==
    CASE op \in {"PointMutation", "Insertion"} ->
            [ data EXCEPT ![d.a + 1] = d.sym ]
      [] op = "Deletion" ->
            [ data EXCEPT ![d.a + 1] = data[((d.a + 1) % GENOME_SIZE) + 1] ]
      [] op = "Inversion" ->
            LET start == d.a
                end == Min(start + d.b, GENOME_SIZE - 1)
            IN  [ i \in DOMAIN data |->
                    IF start + 1 <= i /\ i <= end + 1
                    THEN data[(start + 1) + (end + 1) - i]
                    ELSE data[i] ]
      [] op = "Translocation" ->
            [ data EXCEPT ![d.a + 1] = data[d.b + 1], ![d.b + 1] = data[d.a + 1] ]
      [] op = "Duplication" ->
            [ data EXCEPT ![d.b + 1] = data[d.a + 1] ]
      [] op = "HollidayJunction" ->
            [ i \in DOMAIN data |->
                IF d.a + 1 <= i /\ i <= d.a + 1 + HOLLIDAY_RUN /\ i <= GENOME_SIZE
                THEN Complement(data[i])
                ELSE data[i] ]

\* TTRLEngine::apply_operator on the sequence, with the draws d
ApplyOperator(data, op, d) ==
    CASE op \in {"PointMutation", "Insertion"} ->
            [ data EXCEPT ![d.a + 1] = d.sym ]
      [] op = "Deletion" ->
            [ data EXCEPT ![d.a + 1] = data[((d.a + 1) % GENOME_SIZE) + 1] ]
      [] op = "Inversion" ->
            LET start == d.a
                end == Min(start + d.b, GENOME_SIZE - 1)
            IN  [ i \in DOMAIN data |->
                    IF start + 1 <= i /\ i <= end + 1
                    THEN data[(start + 1) + (end + 1) - i]
                    ELSE data[i] ]
      [] op = "Translocation" ->
            [ data EXCEPT ![d.a + 1] = data[d.b + 1], ![d.b + 1] = data[d.a + 1] ]
      [] op = "Duplication" ->
            [ data EXCEPT ![d.b + 1] = data[d.a + 1] ]
      [] op = "HollidayJunction" ->
            [ i \in DOMAIN data |->
                IF d.a + 1 <= i /\ i < d.a + 1 + HOLLIDAY_RUN /\ i <= GENOME_SIZE
                THEN Complement(data[i])
                ELSE data[i] ]

\* Genome::rna_signal as the pair (t, g): the ratio t / g, f64::MAX when g = 0
RnaSignal(g) == <<CountOf(g.data, {"T"}), CountOf(g.data, {"G"})>>

\* an Err of evolve_with_engine; calls lists the calls on the new entity
\* (apply_operator, divide) made before it was returned
EvolveErr(e, calls) == [ ok |-> FALSE, err |-> e, calls |-> calls ]

\* evolve_with_engine that applies the operator and divides before it tests
\* the preconditions
EvolveWithEngineChecksLast(base, eng, op, d, loss, roll) ==
    IF base.telomere_length < MIN_DIVIDE_TELOMERE
    THEN EvolveErr("Senescence", <<"apply_operator", "divide">>)
    ELSE IF base.p53_copies = 0
    THEN EvolveErr("ProtectionLost", <<"apply_operator", "divide">>)
    ELSE EvolveErr("Senescence", <<"apply_operator", "divide">>)

\* evolve_with_engine that tests p53 before the telomeres
EvolveWithEngineP53First(base, eng, op, d, loss, roll) ==
    IF base.p53_copies = 0 THEN EvolveErr("ProtectionLost", <<>>)
    ELSE IF base.telomere_length < MIN_DIVIDE_TELOMERE THEN EvolveErr("Senescence", <<>>)
    ELSE EvolveErr("Senescence", <<>>)

\* TTRLEngine::evolve_with_engine(base, &engine) with the draws: the operator
\* op and its draws d, the telomere loss, and roll = (gen::<f64>() < 0.01).
\* "Senescence" is the anyhow error whose text starts with Senescence,
\* "ProtectionLost" the one reading "Oncogenic transformation: p53 lost".
EvolveWithEngine(base, eng, op, d, loss, roll) ==
    IF base.telomere_length < MIN_DIVIDE_TELOMERE THEN EvolveErr("Senescence", <<>>)
    ELSE IF base.p53_copies = 0 THEN EvolveErr("ProtectionLost", <<>>)
    ELSE
      LET built   == Build(AllA, base.p53_copies, base.telomere_length)
          copied  == [ built EXCEPT !.data = base.data ]
          applied == [ copied EXCEPT !.data = ApplyOperator(copied.data, op, d) ]
          divided == Divide(applied, loss)
      IN  IF ~DivideReturns(applied)
          THEN EvolveErr("Senescence", <<"apply_operator", "divide">>)
          ELSE
            LET p53_lost == roll /\ divided.p53_copies > 0
                dropped  == IF p53_lost
                            THEN [ divided EXCEPT !.p53_copies = @ - 1 ]
                            ELSE divided
                counted  == [ dropped EXCEPT !.mutations = @ + 1 ]
                mutated  == CalculateConsciousness(Rehash(counted))
            IN  [ ok     |-> TRUE,
                  calls  |-> <<"apply_operator", "divide">>,
                  genome |-> mutated,
                  result |->
                    [ original_consciousness |-> base.consciousness,
                      new_consciousness      |-> mutated.consciousness,
                      mutations_applied      |-> mutated.mutations,
                      operator_used          |-> op,
                      success                |-> mutated.consciousness >= base.consciousness,
                      telomere_loss          |-> applied.telomere_length
                                                 - divided.telomere_length,
                      p53_lost               |-> p53_lost,
                      tg_ratio_before        |-> RnaSignal(base),
                      tg_ratio_after         |-> RnaSignal(mutated) ] ]

\* sample sequences
Letters == <<"A", "T", "G", "C">>
Mixed == [ i \in Positions |-> Letters[((i - 1) % 4) + 1] ]

(***************************************************************************)
(* rotation_daemon.rs: the daemon task                                     *)
(***************************************************************************)
NotRun == [ ok |-> FALSE, err |-> "NotRun" ]

\* RotationDaemon::new, spawned by start_rotation_daemon: the task waits in
\* interval.tick().  pc is the await the task is suspended at, lock what it
\* holds on the engine RwLock there; the other fields record the tick in
\* progress: the engine when the tick began and when apply_tg_influence
\* returned, whether rotate_to was called, whether the scheduled rotation is
\* done and what it dispatched, the outcome of evolve, the result of
\* store_genome and the burn count when the tick began; failure names the
\* call of this tick that last returned Err ("none" when none has) and warned
\* tells whether the code passed that error to warn!.  leader is what the
\* fetch of apply_tg_influence gave in this tick ("none" before it returns,
\* "err", "empty" or "found"), suggested the leader's suggested_rotation and
\* followed whether the draw against prob came out below it.
DaemonNew ==
    [ pc |-> "sleep", lock |-> "none", ticks |-> 0,
      tickStart |-> EngineNew, afterTg |-> EngineNew, forced |-> FALSE,
      rotated |-> FALSE, dispatched |-> "Rot180",
      evolved |-> NotRun, persisted |-> "none", burnsBefore |-> 0,
      failure |-> "none", warned |-> FALSE,
      droppedAt |-> "none",
      leader |-> "none", followed |-> FALSE, suggested |-> "Rot180" ]

\* the awaits of the daemon that are store calls
StoreCalls == { "tg_fetch", "sync_fetch", "evo_fetch", "evo_store" }

\* suggested_rotation with the thresholds included in the upper class
SuggestedRotationInclusive(g) ==
    LET t  == RnaSignal(g)[1]
        gg == RnaSignal(g)[2]
    IN  IF gg = 0 THEN "Rot0"
        ELSE IF 2 * t >= 3 * gg THEN "Rot0"
        ELSE IF 5 * t >= 4 * gg THEN "Rot90"
        ELSE IF 2 * t < gg THEN "Rot180"
        ELSE "Rot270"

\* Genome::suggested_rotation: signal = t / g, f64::MAX when g = 0
SuggestedRotation(g) ==
    LET t  == RnaSignal(g)[1]
        gg == RnaSignal(g)[2]
    IN  IF gg = 0 THEN "Rot0"
        ELSE IF 2 * t > 3 * gg THEN "Rot0"
        ELSE IF 5 * t > 4 * gg THEN "Rot90"
        ELSE IF 2 * t < gg THEN "Rot180"
        ELSE "Rot270"

\* get_top_genomes(1) on the rows st: the possible leaders (ties in any order)
TopGenomes(st) ==
    { LoadGenome(st[i]) : i \in { j \in DOMAIN st :
          \A k \in DOMAIN st : st[k].consciousness <= st[j].consciousness } }

\* whether gen::<f64>() < min(consciousness / 1000, 0.7) can come out as b
FollowPossible(leader, b) == b = FALSE \/ leader.consciousness > 0

\* apply_tg_influence that takes one rotate() towards the suggested state
ApplyTgInfluenceOneStep(e, leader, follow) ==
    IF follow /\ e.current # SuggestedRotation(leader)
    THEN EngineRotate(e)
    ELSE e

\* apply_tg_influence once the leader is fetched: the engine afterwards
ApplyTgInfluence(e, leader, follow) ==
    IF follow /\ e.current # SuggestedRotation(leader)
    THEN EngineRotateTo(e, SuggestedRotation(leader))
    ELSE e

\* the scheduled rotation that dispatches the state it found
RotateStepStale(e) ==
    [ engine |-> e, previous |-> e.current, current |-> e.current ]

\* run, lines 68-71: previous = current(); current = rotate()
RotateStep(e) ==
    [ engine |-> EngineRotate(e), previous |-> e.current,
      current |-> EngineRotate(e).current ]

\* a store call that returned Err and whose error is dropped: the `if let Ok`
\* without else at lines 104 and 161
ErrDropped(d, call) == [ d EXCEPT !.failure = call, !.warned = FALSE ]

\* a failed call that loops forever on the error instead of going on
ErrStuck(d, call) == [ d EXCEPT !.failure = call, !.warned = TRUE, !.pc = "stuck" ]

\* a failed call whose error reaches the `Err(e) => warn!(..)` arm at lines
\* 149, 183 and 187; the handler returns and run goes back to interval.tick()
ErrWarned(d, call) == [ d EXCEPT !.failure = call, !.warned = TRUE, !.pc = "sleep" ]

\* the await the dispatched handler suspends at; handle_compute and
\* handle_balance finish without a store call
DispatchPc(current) ==
    CASE current = "Rot0" -> "sleep"
      [] current = "Rot90" -> "sleep"
      [] current = "Rot180" -> "sync_fetch"
      [] current = "Rot270" -> "evo_fetch"

(***************************************************************************)
(* The tokio RwLocks around RotationEngine and RSMExchange.  The kernel    *)
(* owns one pair (lib.rs), which the daemon task uses; the AppState of the *)
(* API server owns another (api.rs), which the request handlers use.       *)
(***************************************************************************)
LockNames == { "engine", "exchange" }
LockOwners == { "kernel", "app" }
Locks == LockOwners \X LockNames
Tasks == { "daemon", "request1", "request2", "request3" }

\* the Arc<RwLock<..>> pair a task was given
OwnerOf(t) == IF t = "daemon" THEN "kernel" ELSE "app"

\* no tick and no request in progress, every lock free.  pc is the index of
\* the task's next lock operation in path (0 between ticks or requests),
\* holds the guards it has alive in the order it took them, queue the FIFO
\* of tasks waiting in read().await or write().await.
SyncNew ==
    [ pc    |-> [ t \in Tasks |-> 0 ],
      path  |-> [ t \in Tasks |-> <<>> ],
      holds |-> [ t \in Tasks |-> <<>> ],
      queue |-> [ l \in Locks |-> <<>> ] ]

(***************************************************************************)
(* Specification of aging: divide() called again and again on an entity    *)
(* the builder made.                                                       *)
(***************************************************************************)
AgingTelomereInputs == { 0, 99, 100, 149, 150, AgingStart }

AgingInit ==
    /\ \E tel \in AgingTelomereInputs : genome = Build(AllA, DEFAULT_P53, tel)
    /\ lastOp = "build"
    /\ ret = "none"
    /\ partner = NoGenome
    /\ engine = EngineNew /\ trail = <<>>
    /\ store = <<>> /\ exchange = ExchangeNew /\ daemon = DaemonNew /\ appEngine = EngineNew /\ sync = SyncNew

CallDivide ==
    \E loss \in LossDraws :
        /\ genome' = Divide(genome, loss)
        /\ ret' = DivideReturns(genome)
        /\ lastOp' = "divide"
        /\ UNCHANGED <<partner, rotVars, worldVars>>

AgingNext == CallDivide

SpecAging == AgingInit /\ [][AgingNext]_vars

(***************************************************************************)
(* C4: divide() refuses (returns false, entity unchanged) exactly when     *)
(* telomere_length < 100 or division_count >= 50; otherwise it adds 1 to   *)
(* division_count and lowers telomere_length by an amount in [50,150),     *)
(* stopping at 0 instead of wrapping.                                      *)
(***************************************************************************)
C4_DivideContract ==
    [][ lastOp' = "divide" =>
          IF genome.telomere_length < 100 \/ genome.division_count >= 50
          THEN ret' = FALSE /\ genome' = genome
          ELSE /\ ret' = TRUE
               /\ genome'.division_count = genome.division_count + 1
               /\ genome'.telomere_length >= 0
               /\ genome'.telomere_length <= genome.telomere_length
               /\ (genome.telomere_length - genome'.telomere_length) \in 50..149
               /\ [ genome' EXCEPT !.telomere_length = 0, !.division_count = 0 ]
                    = [ genome EXCEPT !.telomere_length = 0, !.division_count = 0 ]
      ]_vars

\* a division that drew more than was left and stopped at 0
C4_Witness ==
    /\ lastOp = "divide" /\ ret = TRUE
    /\ genome.telomere_length = 0
    /\ genome.division_count > 1

\* a refusal at the division limit with budget left
C4_WitnessLimit ==
    /\ lastOp = "divide" /\ ret = FALSE
    /\ genome.telomere_length >= 100
    /\ genome.division_count = 50

(***************************************************************************)
(* Specification of one evolve_with_engine call on an entity loaded from   *)
(* a stored row.                                                           *)
(***************************************************************************)
EvolveLossDraws == { 50, 99, 100, 149 }

EvolveRows ==
    { [ dna |-> s, consciousness |-> Build(s, p, t).consciousness, mutations |-> md[1],
        p53_copies |-> p, telomere_length |-> t, division_count |-> md[2] ] :
        s \in {AllA, Mixed}, p \in {0, 1, DEFAULT_P53}, t \in {0, 99, 100, TELOMERE_MAX},
        md \in { <<0, 0>>, <<EvolveRowMutations, HAYFLICK_LIMIT>> } }

EvolveInit ==
    /\ \E row \in EvolveRows : genome = LoadGenome(row)
    /\ engine = EngineRotate(EngineNew)
    /\ lastOp = "load"
    /\ ret = "none"
    /\ partner = NoGenome
    /\ trail = <<>>
    /\ store = <<>> /\ exchange = ExchangeNew /\ daemon = DaemonNew /\ appEngine = EngineNew /\ sync = SyncNew

\* genome is the caller's entity, moved into the call; ret is what came back
CallEvolve ==
    /\ lastOp = "load"
    /\ \E op \in MutationOperator, loss \in EvolveLossDraws, roll \in BOOLEAN :
        \E d \in OperatorDraws(op) :
            ret' = EvolveWithEngine(genome, engine, op, d, loss, roll)
    /\ lastOp' = "evolve"
    /\ UNCHANGED <<genome, partner, rotVars, worldVars>>

EvolveNext == CallEvolve

SpecEvolve == EvolveInit /\ [][EvolveNext]_vars

(***************************************************************************)
(* C2 as stated: evolve on an entity with p53_copies = 0 fails with        *)
(* ProtectionLost whatever its telomere_length and division_count.         *)
(***************************************************************************)
C2_AlwaysProtectionLost ==
    (lastOp = "evolve" /\ genome.p53_copies = 0) =>
        (ret.ok = FALSE /\ ret.err = "ProtectionLost")

(***************************************************************************)
(* C2 amended: evolve on an entity with p53_copies = 0 always fails, with  *)
(* ProtectionLost when telomere_length >= 100 and with Senescence when     *)
(* telomere_length < 100, whatever its division_count; the failed call     *)
(* changes neither the entity, the rotation engine, the store nor the      *)
(* exchange.                                                               *)
(***************************************************************************)
C2_ProtectionLostAfterSenescence ==
    [][ (lastOp' = "evolve" /\ genome.p53_copies = 0) =>
          /\ ret'.ok = FALSE
          /\ ret'.err = (IF genome.telomere_length >= 100
                         THEN "ProtectionLost" ELSE "Senescence")
          /\ genome' = genome /\ engine' = engine
          /\ store' = store /\ exchange' = exchange
      ]_vars

C2_Witness ==
    /\ lastOp = "evolve" /\ genome.p53_copies = 0
    /\ genome.telomere_length >= 100 /\ genome.division_count = 50
    /\ ret.ok = FALSE /\ ret.err = "ProtectionLost"

(***************************************************************************)
(* ttrl.rs: meiosis                                                        *)
(***************************************************************************)
MAX_CROSSOVERS == 4
INTERFERENCE == 5
POST_MEIOTIC_MUTATIONS == 1

\* the generation loop without its break
RECURSIVE CrossoverPointsFromNoBreak(_, _)
CrossoverPointsFromNoBreak(last_point, n) ==
    IF n = 0 THEN { <<>> }
    ELSE LET min_pos == Min(last_point + INTERFERENCE, GENOME_SIZE - 2)
         IN  UNION { { <<point>> \o rest : rest \in CrossoverPointsFromNoBreak(point, n - 1) } :
                     point \in min_pos..(GENOME_SIZE - 2) }

\* the crossover_points the generation loop can produce from last_point with
\* n iterations left (0-based positions)
RECURSIVE CrossoverPointsFrom(_, _)
CrossoverPointsFrom(last_point, n) ==
    IF n = 0 THEN { <<>> }
    ELSE LET min_pos == Min(last_point + INTERFERENCE, GENOME_SIZE - 2)
         IN  IF min_pos >= GENOME_SIZE - 2 THEN { <<>> }
             ELSE UNION { { <<point>> \o rest : rest \in CrossoverPointsFrom(point, n - 1) } :
                          point \in min_pos..(GENOME_SIZE - 2) }

\* all lists for num_crossovers in 1..=4
CrossoverPointLists ==
    UNION { CrossoverPointsFrom(0, num) : num \in 1..MAX_CROSSOVERS }

\* the assembly loop that flips one position late
RECURSIVE AssembleFromFlipAfter(_, _, _, _, _, _)
AssembleFromFlipAfter(i, use_parent1, cp_idx, points, d1, d2) ==
    IF i >= GENOME_SIZE THEN <<>>
    ELSE LET flip == cp_idx < Len(points) /\ i > points[cp_idx + 1]
             use  == IF flip THEN ~use_parent1 ELSE use_parent1
             idx  == IF flip THEN cp_idx + 1 ELSE cp_idx
         IN  << IF use THEN d1[i + 1] ELSE d2[i + 1] >>
             \o AssembleFromFlipAfter(i + 1, use, idx, points, d1, d2)

\* the assembly loop that reads parent2 one position ahead
RECURSIVE AssembleFromShifted(_, _, _, _, _, _)
AssembleFromShifted(i, use_parent1, cp_idx, points, d1, d2) ==
    IF i >= GENOME_SIZE THEN <<>>
    ELSE LET flip == cp_idx < Len(points) /\ i >= points[cp_idx + 1]
             use  == IF flip THEN ~use_parent1 ELSE use_parent1
             idx  == IF flip THEN cp_idx + 1 ELSE cp_idx
         IN  << IF use THEN d1[i + 1] ELSE d2[((i + 1) % GENOME_SIZE) + 1] >>
             \o AssembleFromShifted(i + 1, use, idx, points, d1, d2)

\* the loop `for i in 0..GENOME_SIZE` of meiosis, from iteration i on
RECURSIVE AssembleFrom(_, _, _, _, _, _)
AssembleFrom(i, use_parent1, cp_idx, points, d1, d2) ==
    IF i >= GENOME_SIZE THEN <<>>
    ELSE LET flip == cp_idx < Len(points) /\ i >= points[cp_idx + 1]
             use  == IF flip THEN ~use_parent1 ELSE use_parent1
             idx  == IF flip THEN cp_idx + 1 ELSE cp_idx
         IN  << IF use THEN d1[i + 1] ELSE d2[i + 1] >>
             \o AssembleFrom(i + 1, use, idx, points, d1, d2)

\* the draws of the 5% post-meiotic mutation: not taken, or (pos, Tetrad::random())
PostDraws ==
    { [ hit |-> FALSE, pos |-> 0, sym |-> "A" ] }
    \cup { [ hit |-> TRUE, pos |-> x, sym |-> t ] : x \in 0..(GENOME_SIZE - 1), t \in Tetrad }

\* a meiosis that counts the post-meiotic mutation
MeiosisCountsPostEdit(parent1, parent2, points, use_parent1, post) ==
    LET offspring_data == AssembleFrom(0, use_parent1, 0, points, parent1.data, parent2.data)
        p53     == Max(parent1.p53_copies, parent2.p53_copies)
        built   == Build(AllA, p53, TELOMERE_MAX)
        filled  == [ built EXCEPT !.data = offspring_data, !.mutations = POST_MEIOTIC_MUTATIONS ]
        edited  == IF post.hit
                   THEN [ filled EXCEPT !.data[post.pos + 1] = post.sym, !.mutations = @ + 1 ]
                   ELSE filled
    IN  CalculateConsciousness(Rehash(edited))

\* TTRLEngine::meiosis with its draws: the offspring
Meiosis(parent1, parent2, points, use_parent1, post) ==
    LET offspring_data == AssembleFrom(0, use_parent1, 0, points, parent1.data, parent2.data)
        p53     == Max(parent1.p53_copies, parent2.p53_copies)
        built   == Build(AllA, p53, TELOMERE_MAX)
        filled  == [ built EXCEPT !.data = offspring_data, !.mutations = POST_MEIOTIC_MUTATIONS ]
        edited  == IF post.hit
                   THEN [ filled EXCEPT !.data[post.pos + 1] = post.sym ]
                   ELSE filled
    IN  CalculateConsciousness(Rehash(edited))

MixedComplement == [ i \in Positions |-> Complement(Mixed[i]) ]

StoredRow(s, p, t, m, dc) ==
    [ dna |-> s, consciousness |-> Build(s, p, t).consciousness, mutations |-> m,
      p53_copies |-> p, telomere_length |-> t, division_count |-> dc ]

(***************************************************************************)
(* Specification of one meiosis call on two entities loaded from stored    *)
(* rows.                                                                   *)
(***************************************************************************)
MeiosisParents ==
    { << LoadGenome(StoredRow(Mixed, DEFAULT_P53, TELOMERE_MAX, 0, 0)),
         LoadGenome(StoredRow(MixedComplement, 40, 99, MeiosisRowMutations, 1)) >>,
      << LoadGenome(StoredRow(AllA, 1, 7000, 1, 1)),
         LoadGenome(StoredRow(Mixed, 0, TELOMERE_MAX, 0, 0)) >> }

MeiosisInit ==
    /\ \E pair \in MeiosisParents : genome = pair[1] /\ partner = pair[2]
    /\ lastOp = "load"
    /\ ret = "none"
    /\ engine = EngineNew /\ trail = <<>>
    /\ store = <<>> /\ exchange = ExchangeNew /\ daemon = DaemonNew /\ appEngine = EngineNew /\ sync = SyncNew

\* ret keeps the offspring together with the draws that produced it
CallMeiosis ==
    /\ lastOp = "load"
    /\ \E points \in CrossoverPointLists, use_parent1 \in BOOLEAN, post \in PostDraws :
          ret' = [ genome           |-> Meiosis(genome, partner, points, use_parent1, post),
                   crossover_points |-> points,
                   use_parent1      |-> use_parent1,
                   post             |-> post ]
    /\ lastOp' = "meiosis"
    /\ UNCHANGED <<genome, partner, rotVars, worldVars>>

MeiosisNext == CallMeiosis

SpecMeiosis == MeiosisInit /\ [][MeiosisNext]_vars

(***************************************************************************)
(* C3 as stated: the offspring has 27 symbols and each of them is the      *)
(* symbol of one of the parents at that position, whatever was drawn,      *)
(* the post-meiotic mutation included.                                     *)
(***************************************************************************)
C3_EverySymbolFromAParent ==
    lastOp = "meiosis" =>
        /\ Len(ret.genome.data) = 27
        /\ \A i \in 1..27 : ret.genome.data[i] \in { genome.data[i], partner.data[i] }

(***************************************************************************)
(* C3 amended: the offspring has exactly 27 symbols; at every position     *)
(* other than the one the post-meiotic mutation wrote, its symbol is the   *)
(* symbol of one of the parents at that position; the position the         *)
(* post-meiotic mutation wrote (at most one, and none when the mutation    *)
(* is not drawn) holds the drawn symbol, any of A, T, G, C.                *)
(***************************************************************************)
C3_SymbolsFromParentsButPostEdit ==
    lastOp = "meiosis" =>
        /\ Len(ret.genome.data) = 27
        /\ \A i \in 1..27 :
              IF ret.post.hit /\ i = ret.post.pos + 1
              THEN ret.genome.data[i] = ret.post.sym
              ELSE ret.genome.data[i] \in { genome.data[i], partner.data[i] }

\* a post-meiotic mutation wrote a symbol neither parent has there
C3_Witness ==
    /\ lastOp = "meiosis"
    /\ ret.post.hit
    /\ ret.genome.data[ret.post.pos + 1] \notin
          { genome.data[ret.post.pos + 1], partner.data[ret.post.pos + 1] }
    /\ Len(ret.crossover_points) = 4

(***************************************************************************)
(* C6: without a post-meiotic mutation, position i of the offspring comes  *)
(* from the initially chosen parent exactly when the number of crossover   *)
(* points <= i is even, and from the other parent otherwise; points        *)
(* [10, 18] starting with parent1 give                                     *)
(* parent1[0..10] + parent2[10..18] + parent1[18..27].                     *)
(***************************************************************************)
C6_AlternatingRuns ==
    (lastOp = "meiosis" /\ ~ret.post.hit) =>
        LET first  == IF ret.use_parent1 THEN genome.data ELSE partner.data
            second == IF ret.use_parent1 THEN partner.data ELSE genome.data
            pts    == ret.crossover_points
            before(i) == Cardinality({ k \in 1..Len(pts) : pts[k] <= i })
        IN  /\ \A i \in 0..26 :
                  ret.genome.data[i + 1] =
                      (IF before(i) % 2 = 0 THEN first[i + 1] ELSE second[i + 1])
            /\ (pts = <<10, 18>> /\ ret.use_parent1) =>
                  ret.genome.data = SubSeq(genome.data, 1, 10)
                                    \o SubSeq(partner.data, 11, 18)
                                    \o SubSeq(genome.data, 19, 27)

C6_Witness ==
    /\ lastOp = "meiosis" /\ ~ret.post.hit
    /\ ret.crossover_points = <<10, 18>> /\ ret.use_parent1
    /\ \A i \in 1..27 : genome.data[i] # partner.data[i]
    /\ ret.genome.data[10] = genome.data[10]
    /\ ret.genome.data[11] = partner.data[11]
    /\ ret.genome.data[18] = partner.data[18]
    /\ ret.genome.data[19] = genome.data[19]

(***************************************************************************)
(* genome.rs: CRISPR editing                                               *)
(***************************************************************************)
\* Genome::crispr_splice(position, tetrad), position 0-based
CrisprSplice(g, position, tetrad) ==
    IF position < GENOME_SIZE
    THEN CalculateConsciousness(Rehash(
            [ g EXCEPT !.data[position + 1] = tetrad, !.mutations = @ + 1 ]))
    ELSE g

(***************************************************************************)
(* Specification of two entities, each built by GenomeBuilder and then     *)
(* edited or rehashed by its owner.                                        *)
(***************************************************************************)
WHALE_P53 == 40
ScoreP53 == { DEFAULT_P53, WHALE_P53 }
ScoreSequences == { AllA, Mixed }
EditPositions == { 0, GENOME_SIZE - 1, GENOME_SIZE }

ScoreInit ==
    /\ \E s1 \in ScoreSequences, s2 \in ScoreSequences, p1 \in ScoreP53, p2 \in ScoreP53 :
          /\ genome = Build(s1, p1, TELOMERE_MAX)
          /\ partner = Build(s2, p2, TELOMERE_MAX)
    /\ lastOp = "build"
    /\ ret = "none"
    /\ engine = EngineNew /\ trail = <<>>
    /\ store = <<>> /\ exchange = ExchangeNew /\ daemon = DaemonNew /\ appEngine = EngineNew /\ sync = SyncNew

\* rehash() followed by calculate_consciousness() on one of the two entities
CallRehash ==
    /\ \/ genome' = CalculateConsciousness(Rehash(genome)) /\ UNCHANGED partner
       \/ partner' = CalculateConsciousness(Rehash(partner)) /\ UNCHANGED genome
    /\ lastOp' = "rehash"
    /\ UNCHANGED <<ret, rotVars, worldVars>>

CallCrisprSplice ==
    /\ \E position \in EditPositions, tetrad \in Tetrad :
          \/ /\ genome.mutations < MaxEdits
             /\ genome' = CrisprSplice(genome, position, tetrad)
             /\ UNCHANGED partner
          \/ /\ partner.mutations < MaxEdits
             /\ partner' = CrisprSplice(partner, position, tetrad)
             /\ UNCHANGED genome
    /\ lastOp' = "crispr_splice"
    /\ UNCHANGED <<ret, rotVars, worldVars>>

ScoreNext == CallRehash \/ CallCrisprSplice

SpecScore == ScoreInit /\ [][ScoreNext]_vars

(***************************************************************************)
(* C5: two entities with the same sequence, the same p53_copies and the    *)
(* same mutation count have the same consciousness, whichever operations   *)
(* produced them.                                                          *)
(***************************************************************************)
C5_SameTripleSameScore ==
    ( /\ genome.data = partner.data
      /\ genome.p53_copies = partner.p53_copies
      /\ genome.mutations = partner.mutations )
    => genome.consciousness = partner.consciousness

LastFour(s) == IF Len(s) > 4 THEN SubSeq(s, Len(s) - 3, Len(s)) ELSE s

(***************************************************************************)
(* Specification of the engine alone: any caller sequence of its methods.  *)
(* lastOp names the method called last; ret is what rotate returned, the   *)
(* target given to rotate_to, or the active count the call found.          *)
(***************************************************************************)
RotInit ==
    /\ engine = EngineNew
    /\ trail = <<>>
    /\ genome = NoGenome /\ lastOp = "none" /\ ret = "none" /\ partner = NoGenome
    /\ store = <<>> /\ exchange = ExchangeNew /\ daemon = DaemonNew /\ appEngine = EngineNew /\ sync = SyncNew

Rotate ==
    /\ engine.total_rotations < MaxRotations
    /\ engine' = EngineRotate(engine)
    /\ trail' = LastFour(Append(trail, engine))
    /\ lastOp' = "rotate"
    /\ ret' = engine'.current
    /\ UNCHANGED <<genome, partner, worldVars>>

RotateTo ==
    \E target \in DynamicRotation :
        /\ engine.total_rotations + 3 <= MaxRotations
        /\ engine' = EngineRotateTo(engine, target)
        /\ trail' = <<>>
        /\ lastOp' = "rotate_to"
        /\ ret' = target
        /\ UNCHANGED <<genome, partner, worldVars>>

IncrementActive ==
    /\ engine.active_genomes < MaxActive
    /\ engine' = EngineIncrementActive(engine)
    /\ trail' = <<>>
    /\ lastOp' = "increment_active"
    /\ ret' = engine.active_genomes
    /\ UNCHANGED <<genome, partner, worldVars>>

DecrementActive ==
    /\ engine' = EngineDecrementActive(engine)
    /\ trail' = <<>>
    /\ lastOp' = "decrement_active"
    /\ ret' = engine.active_genomes
    /\ UNCHANGED <<genome, partner, worldVars>>

RotNextAction == Rotate \/ RotateTo \/ IncrementActive \/ DecrementActive

SpecRotation == RotInit /\ [][RotNextAction]_vars

(***************************************************************************)
(* C1: four consecutive rotate() calls, with no other call in between,     *)
(* bring the engine back to the rotation state it started from and raise   *)
(* total_rotations by exactly 4.                                           *)
(***************************************************************************)
C1_FourRotationsIdentity ==
    Len(trail) = 4 =>
        /\ engine.current = trail[1].current
        /\ engine.total_rotations = trail[1].total_rotations + 4

C1_Witness ==
    /\ Len(trail) = 4
    /\ trail[1].current = "Rot0"
    /\ trail[1].total_rotations > 0
    /\ engine.current = "Rot0"

(***************************************************************************)
(* Specification of the daemon task of `divine daemon`: ticks, the         *)
(* store calls it awaits, and the process ending on ctrl_c.                *)
(***************************************************************************)
AllG == [ i \in Positions |-> "G" ]

DaemonStores ==
    { <<>>,
      << StoredRow(Mixed, DEFAULT_P53, TELOMERE_MAX, 0, 0) >>,
      << StoredRow(AllA, 0, TELOMERE_MAX, 0, 0), StoredRow(AllG, DEFAULT_P53, TELOMERE_MAX, 0, 0) >> }

\* the draws of evolve taken in this specification
DaemonDraws ==
    { [ op |-> "PointMutation",    d |-> [ a |-> 0, b |-> 0, sym |-> "G" ] ],
      [ op |-> "Translocation",    d |-> [ a |-> 0, b |-> 1, sym |-> "A" ] ],
      [ op |-> "HollidayJunction", d |-> [ a |-> 5, b |-> 0, sym |-> "A" ] ] }

DaemonLossDraws == { LOSS_MIN, LOSS_END - 1 }

DaemonInit ==
    /\ engine = EngineNew /\ trail = <<>>
    /\ genome = NoGenome /\ lastOp = "none" /\ ret = "none" /\ partner = NoGenome
    /\ store \in DaemonStores
    /\ exchange = ExchangeNew
    /\ daemon = DaemonNew /\ appEngine = EngineNew /\ sync = SyncNew

\* interval.tick() fires: the tick starts with apply_tg_influence, which
\* awaits get_top_genomes(1)
IntervalTick ==
    /\ daemon.pc = "sleep"
    /\ daemon.ticks < MaxTicks
    /\ daemon' = [ daemon EXCEPT !.pc = "tg_fetch", !.ticks = @ + 1,
                                 !.tickStart = engine, !.afterTg = engine,
                                 !.forced = FALSE, !.rotated = FALSE,
                                 !.evolved = NotRun, !.persisted = "none",
                                 !.failure = "none", !.warned = FALSE,
                                 !.leader = "none", !.followed = FALSE,
                                 !.suggested = "Rot180",
                                 !.burnsBefore = exchange.total_burns ]
    /\ UNCHANGED <<rotVars, genomeVars, appEngine, sync, store, exchange>>

\* the rest of the tick up to its next store call, given the engine left
\* by apply_tg_influence: scheduled rotation, dispatch, handle_compute
RotateAndDispatch(d, afterTg, forced) ==
    LET step == RotateStep(afterTg)
    IN  /\ engine' = IF step.current = "Rot0"
                     THEN EngineIncrementActive(step.engine)
                     ELSE step.engine
        /\ daemon' = [ d EXCEPT !.pc = DispatchPc(step.current),
                                     !.afterTg = afterTg, !.forced = forced,
                                     !.rotated = TRUE, !.dispatched = step.current ]

\* get_top_genomes(1) returns: Err and an empty list leave the engine alone,
\* a leader may force a rotate_to; then run goes on to the scheduled rotation
TgFetchReturns ==
    /\ daemon.pc = "tg_fetch"
    /\ \/ RotateAndDispatch([ ErrDropped(daemon, "tg_fetch") EXCEPT !.leader = "err" ],
                             engine, FALSE)
       \/ /\ store = <<>>
          /\ RotateAndDispatch([ daemon EXCEPT !.leader = "empty" ], engine, FALSE)
       \/ \E leader \in TopGenomes(store), follow \in BOOLEAN :
             /\ FollowPossible(leader, follow)
             /\ RotateAndDispatch([ daemon EXCEPT !.leader = "found",
                                                  !.followed = follow,
                                                  !.suggested = SuggestedRotation(leader) ],
                                  ApplyTgInfluence(engine, leader, follow),
                                  follow /\ engine.current # SuggestedRotation(leader))
    /\ UNCHANGED <<trail, genomeVars, appEngine, sync, store, exchange>>

\* handle_storage_sync: get_top_genomes(10) returns, Ok or Err
SyncFetchReturns ==
    /\ daemon.pc = "sync_fetch"
    /\ \/ daemon' = [ daemon EXCEPT !.pc = "sleep" ]
       \/ daemon' = ErrWarned(daemon, "sync_fetch")
    /\ UNCHANGED <<rotVars, genomeVars, appEngine, sync, store, exchange>>

\* handle_evolution: get_random_genomes(1) returns.  On a genome the engine
\* read lock is taken (line 158) and evolve runs; on Ok the task awaits
\* store_genome with the guard still alive.
EvoFetchReturns ==
    /\ daemon.pc = "evo_fetch"
    /\ \/ daemon' = ErrWarned(daemon, "evo_fetch")
       \/ store = <<>> /\ daemon' = [ daemon EXCEPT !.pc = "sleep" ]
       \/ \E i \in DOMAIN store, draw \in DaemonDraws, loss \in DaemonLossDraws,
             roll \in BOOLEAN :
             LET out == EvolveWithEngine(LoadGenome(store[i]), engine,
                                         draw.op, draw.d, loss, roll)
             IN  daemon' = IF out.ok
                           THEN [ daemon EXCEPT !.pc = "evo_store", !.lock = "read",
                                                !.evolved = out ]
                           ELSE ErrWarned([ daemon EXCEPT !.evolved = out ], "evolve")
    /\ UNCHANGED <<rotVars, genomeVars, appEngine, sync, store, exchange>>

\* store_genome returns: on Ok(id) the burn for a degradation, on Err nothing;
\* the guard on the engine is dropped when the match arm ends
EvoStoreReturns ==
    /\ daemon.pc = "evo_store"
    /\ \/ /\ Len(store) < MaxStore
          /\ store' = Append(store, RowOf(daemon.evolved.genome))
          /\ exchange' = IF ~daemon.evolved.result.success
                         THEN BurnOnDegradation(exchange, Len(store) + 1,
                                  daemon.evolved.result.original_consciousness,
                                  daemon.evolved.result.new_consciousness)
                         ELSE exchange
          /\ daemon' = [ daemon EXCEPT !.pc = "sleep", !.lock = "none",
                                       !.persisted = "ok" ]
       \/ /\ daemon' = ErrDropped([ daemon EXCEPT !.pc = "sleep", !.lock = "none",
                                                     !.persisted = "err" ], "evo_store")
          /\ UNCHANGED <<store, exchange>>
    /\ UNCHANGED <<rotVars, genomeVars, appEngine, sync>>

\* ctrl_c arrives, main returns and the runtime drops the task at the await
\* it is suspended at
Shutdown ==
    /\ daemon.pc # "dropped"
    /\ daemon' = [ daemon EXCEPT !.pc = "dropped", !.lock = "none",
                                 !.droppedAt = daemon.pc ]
    /\ UNCHANGED <<rotVars, genomeVars, appEngine, sync, store, exchange>>

DaemonNext ==
    \/ IntervalTick
    \/ TgFetchReturns
    \/ SyncFetchReturns
    \/ EvoFetchReturns
    \/ EvoStoreReturns
    \/ Shutdown

SpecDaemon == DaemonInit /\ [][DaemonNext]_vars

(***************************************************************************)
(* C7: in every tick, forced rotation or not, rotate() runs exactly once   *)
(* after apply_tg_influence: the dispatched state is the successor of the  *)
(* engine state apply_tg_influence left, total_rotations is one more than  *)
(* it left, and one more than at the start of the tick when nothing was    *)
(* forced.                                                                 *)
(***************************************************************************)
C7_OneScheduledRotation ==
    daemon.rotated =>
        /\ daemon.dispatched = RotNext(daemon.afterTg.current)
        /\ engine.current = daemon.dispatched
        /\ engine.total_rotations = daemon.afterTg.total_rotations + 1
        /\ ~daemon.forced => /\ daemon.afterTg = daemon.tickStart
                             /\ engine.total_rotations = daemon.tickStart.total_rotations + 1

C7_Witness ==
    /\ daemon.rotated /\ daemon.forced
    /\ daemon.ticks > 1
    /\ daemon.pc = "evo_fetch"
    /\ engine.total_rotations > daemon.tickStart.total_rotations + 1

(***************************************************************************)
(* C8: a Rot270 tick in which evolve returned success == false has given   *)
(* the exchange exactly one degradation burn carrying the old and the new  *)
(* consciousness by the time the tick ends, also when store_genome         *)
(* failed; a tick with success == true has given it none.                  *)
(***************************************************************************)
C8_DegradationReported ==
    (daemon.pc = "sleep" /\ daemon.evolved.ok) =>
        IF ~daemon.evolved.result.success
        THEN /\ exchange.total_burns = daemon.burnsBefore + 1
             /\ LET ev == exchange.burn_events[Len(exchange.burn_events)]
                IN  /\ ev.reason = "EvolutionDegradation"
                    /\ ev.consciousness_before = daemon.evolved.result.original_consciousness
                    /\ ev.consciousness_after = daemon.evolved.result.new_consciousness
        ELSE exchange.total_burns = daemon.burnsBefore

(***************************************************************************)
(* C9: while a store call of the daemon is in progress the daemon holds    *)
(* no lock on the rotation engine.                                         *)
(***************************************************************************)
C9_NoEngineLockAcrossStoreCall ==
    daemon.pc \in StoreCalls => daemon.lock = "none"

(***************************************************************************)
(* C10: the daemon is stopped only between ticks: it is never dropped      *)
(* after the rotate() of a tick and before the dispatched handler of that  *)
(* tick has finished.                                                      *)
(***************************************************************************)
C10_NoTickAbandonedAfterRotate ==
    daemon.pc = "dropped" => (daemon.droppedAt = "sleep" \/ ~daemon.rotated)

\* the same task under a scheduler that resumes it: the interval fires and
\* every store call returns at some time
SpecDaemonLive ==
    /\ DaemonInit /\ [][DaemonNext]_vars
    /\ WF_vars(IntervalTick)
    /\ WF_vars(TgFetchReturns)
    /\ WF_vars(SyncFetchReturns)
    /\ WF_vars(EvoFetchReturns)
    /\ WF_vars(EvoStoreReturns)

(***************************************************************************)
(* C11: a store call of a tick that returns Err does not end the loop.     *)
(* The step on which it returns leaves store and exchange as they were;    *)
(* when it is the fetch of apply_tg_influence the scheduled rotation       *)
(* still happens on that step and the phase is dispatched, otherwise the   *)
(* rotation of the tick is already in the engine and the task goes back    *)
(* to interval.tick(); and the next tick starts unless the process is      *)
(* ended first.                                                            *)
(***************************************************************************)
C11_StoreFailureNotFatal ==
    /\ [][ (daemon.pc \in StoreCalls /\ daemon'.failure = daemon.pc) =>
              /\ store' = store
              /\ exchange' = exchange
              /\ IF daemon.pc = "tg_fetch"
                 THEN /\ engine'.current = RotNext(engine.current)
                      /\ engine'.total_rotations = engine.total_rotations + 1
                      /\ daemon'.rotated
                      /\ daemon'.pc = DispatchPc(engine'.current)
                 ELSE /\ daemon.rotated
                      /\ engine' = engine
                      /\ daemon'.pc = "sleep" ]_vars
    /\ (daemon.failure \in StoreCalls /\ daemon.ticks < MaxTicks)
          ~> (daemon.pc = "tg_fetch" \/ daemon.pc = "dropped")

C11_Witness ==
    /\ daemon.failure = "evo_store"
    /\ daemon.pc = "sleep"
    /\ daemon.ticks = 2
    /\ daemon.rotated

(***************************************************************************)
(* C12: every call of a tick that fails (the fetch of                      *)
(* apply_tg_influence, the fetch of a phase, evolve, store_genome) has     *)
(* been reported by a warning.                                             *)
(***************************************************************************)
C12_EveryFailureWarned ==
    daemon.failure # "none" => daemon.warned

(***************************************************************************)
(* Specification of `divine server`: the kernel's daemon ticks while the   *)
(* API server answers the rotation handlers from its AppState.             *)
(***************************************************************************)
\* RotationStats::from_engine, without the time stamp
GetStats(e) ==
    [ current_rotation |-> e.current,
      total_rotations  |-> e.total_rotations,
      rotations_per_state |->
          [ Rot0 |-> e.rot0_count, Rot90 |-> e.rot90_count,
            Rot180 |-> e.rot180_count, Rot270 |-> e.rot270_count ],
      active_genomes   |-> e.active_genomes ]

\* main, Commands::Server: DivineKernel::new, start_rotation_daemon, then
\* api::start_server, which builds the AppState
ServerInit ==
    /\ engine = EngineNew /\ trail = <<>>
    /\ genome = NoGenome /\ lastOp = "none" /\ ret = "none" /\ partner = NoGenome
    /\ store = << StoredRow(Mixed, DEFAULT_P53, TELOMERE_MAX, 0, 0) >>
    /\ exchange = ExchangeNew
    /\ daemon = DaemonNew
    /\ appEngine = EngineNew /\ sync = SyncNew

\* GET /api/rotation/stats
RotationStatsHandler ==
    /\ ret' = GetStats(appEngine)
    /\ lastOp' = "rotation_stats"
    /\ UNCHANGED <<rotVars, genome, partner, worldVars>>

\* POST /api/rotation/rotate
ManualRotateHandler ==
    /\ appEngine.total_rotations < MaxManualRotations
    /\ appEngine' = EngineRotate(appEngine)
    /\ ret' = GetStats(appEngine')
    /\ lastOp' = "manual_rotate"
    /\ UNCHANGED <<rotVars, genome, partner, store, exchange, daemon, sync>>

ServerNext ==
    \/ IntervalTick
    \/ TgFetchReturns
    \/ SyncFetchReturns
    \/ EvoFetchReturns
    \/ EvoStoreReturns
    \/ RotationStatsHandler
    \/ ManualRotateHandler

SpecServer == ServerInit /\ [][ServerNext]_vars

(***************************************************************************)
(* C13: the statistics a rotation_stats request returns are those of the   *)
(* engine the daemon rotates: current state, total_rotations and active    *)
(* count are equal, after any number of ticks.                             *)
(***************************************************************************)
C13_HandlerSeesDaemonEngine ==
    [][ (lastOp' = "rotation_stats" /\ daemon' = daemon) =>
           /\ ret'.current_rotation = engine.current
           /\ ret'.total_rotations = engine.total_rotations
           /\ ret'.active_genomes = engine.active_genomes ]_vars

(***************************************************************************)
(* Specification of the aging budget: an entity built with any             *)
(* telomere_length the builder takes, then divided and given telomerase.   *)
(***************************************************************************)
\* GenomeBuilder::telomere_length(length: u16) stores any u16
BuilderTelomereInputs == { 0, MIN_DIVIDE_TELOMERE, TELOMERE_MAX, TELOMERE_MAX + 1, U16 - 1 }

BudgetInit ==
    /\ \E tel \in BuilderTelomereInputs : genome = Build(AllA, DEFAULT_P53, tel)
    /\ lastOp = "build"
    /\ ret = "none"
    /\ partner = NoGenome
    /\ engine = EngineNew /\ trail = <<>>
    /\ store = <<>> /\ exchange = ExchangeNew /\ daemon = DaemonNew /\ appEngine = EngineNew /\ sync = SyncNew

\* divide() with the least and the greatest loss it can draw
CallDivideExtremes ==
    \E loss \in { LOSS_MIN, LOSS_END - 1 } :
        /\ genome.division_count < MaxBudgetDivisions
        /\ genome' = Divide(genome, loss)
        /\ ret' = DivideReturns(genome)
        /\ lastOp' = "divide"
        /\ UNCHANGED <<partner, rotVars, worldVars>>

CallActivateTelomerase ==
    /\ genome' = ActivateTelomerase(genome)
    /\ ret' = "none"
    /\ lastOp' = "activate_telomerase"
    /\ UNCHANGED <<partner, rotVars, worldVars>>

BudgetNext == CallDivideExtremes \/ CallActivateTelomerase

SpecBudget == BudgetInit /\ [][BudgetNext]_vars

(***************************************************************************)
(* C14: every entity the builder, divide and activate_telomerase produce   *)
(* has 0 <= telomere_length <= 15000.                                      *)
(***************************************************************************)
C14_TelomereWithinMax ==
    genome.telomere_length >= 0 /\ genome.telomere_length <= 15000

(***************************************************************************)
(* C15: the hash of an entity is the digest of its current data,           *)
(* mutations and p53_copies after build (with any p53_copies), after an    *)
(* edit and after a rehash: none carries a hash of earlier field values.   *)
(***************************************************************************)
C15_HashIsCurrentDigest ==
    /\ genome.hash = Digest(genome.data, genome.mutations, genome.p53_copies)
    /\ partner.hash = Digest(partner.data, partner.mutations, partner.p53_copies)

(***************************************************************************)
(* C16: a successful evolve returns an entity whose mutations is the       *)
(* input's mutations plus 1, and mutations_applied of the result reports   *)
(* that value.                                                             *)
(***************************************************************************)
C16_MutationsPlusOne ==
    (lastOp = "evolve" /\ ret.ok) =>
        /\ ret.genome.mutations = genome.mutations + 1
        /\ ret.result.mutations_applied = genome.mutations + 1

(***************************************************************************)
(* C17: evolve on an entity whose division_count has reached 50 fails      *)
(* with Senescence, also when its telomere_length is at least 100 and it   *)
(* has p53 copies left.                                                    *)
(***************************************************************************)
C17_HayflickLimitStopsEvolve ==
    ( /\ lastOp = "evolve"
      /\ genome.division_count >= 50
      /\ genome.telomere_length >= 100
      /\ genome.p53_copies >= 1 )
    => (~ret.ok /\ ret.err = "Senescence")

(***************************************************************************)
(* C18: rotate_to(target) returns for every current state and target with  *)
(* current == target, after k rotate() steps where k is the distance from  *)
(* the old state to the target along the cycle (0 when already there, at   *)
(* most 3), and total_rotations and the per-state counts grow by exactly   *)
(* k; the active count is left alone.                                      *)
(***************************************************************************)
C18_RotateToBounded ==
    [][ lastOp' = "rotate_to" =>
          LET steps == engine'.total_rotations - engine.total_rotations
              visits(e) == e.rot0_count + e.rot90_count + e.rot180_count + e.rot270_count
              k == CHOOSE n \in 0..3 :
                      ret' = [ i \in 0..3 |->
                                 CASE i = 0 -> engine.current
                                   [] i = 1 -> RotNext(engine.current)
                                   [] i = 2 -> RotNext(RotNext(engine.current))
                                   [] i = 3 -> RotNext(RotNext(RotNext(engine.current))) ][n]
          IN  /\ engine'.current = ret'
              /\ steps = k
              /\ visits(engine') = visits(engine) + k
              /\ engine.current = ret' => engine' = engine
              /\ engine'.active_genomes = engine.active_genomes ]_vars

C18_Witness ==
    /\ lastOp = "rotate_to"
    /\ ret = "Rot90"
    /\ engine.current = "Rot90"
    /\ engine.total_rotations = 3
    /\ engine.rot270_count = 1 /\ engine.rot0_count = 1 /\ engine.rot90_count = 1

(***************************************************************************)
(* C19: the active count is never negative; decrement_active at 0 leaves   *)
(* it at 0, otherwise it takes 1 off; increment_active adds 1; neither     *)
(* changes the rotation state or a rotation counter.                       *)
(***************************************************************************)
C19_ActiveCountSaturates ==
    [][ lastOp' \in { "increment_active", "decrement_active" } =>
          /\ engine'.active_genomes >= 0
          /\ engine'.active_genomes =
                IF lastOp' = "increment_active" THEN engine.active_genomes + 1
                ELSE IF engine.active_genomes = 0 THEN 0
                ELSE engine.active_genomes - 1
          /\ [ engine' EXCEPT !.active_genomes = engine.active_genomes ] = engine ]_vars

C19_Witness ==
    /\ lastOp = "decrement_active"
    /\ ret = 0
    /\ engine.active_genomes = 0
    /\ engine.total_rotations > 0

(***************************************************************************)
(* C20: evolve tests its preconditions in a fixed order and before         *)
(* anything else: telomere_length < 100 gives Senescence whatever          *)
(* p53_copies is; telomere_length >= 100 with p53_copies == 0 gives        *)
(* ProtectionLost; in both cases neither apply_operator nor divide has     *)
(* been called, and they are called only when both tests pass.             *)
(***************************************************************************)
C20_PreconditionOrder ==
    [][ lastOp' = "evolve" =>
          /\ genome.telomere_length < 100 =>
                ret' = [ ok |-> FALSE, err |-> "Senescence", calls |-> <<>> ]
          /\ (genome.telomere_length >= 100 /\ genome.p53_copies = 0) =>
                ret' = [ ok |-> FALSE, err |-> "ProtectionLost", calls |-> <<>> ]
          /\ ret'.calls # <<>> =>
                /\ genome.telomere_length >= 100
                /\ genome.p53_copies >= 1
                /\ ret'.calls = <<"apply_operator", "divide">> ]_vars

C20_Witness ==
    /\ lastOp = "evolve"
    /\ genome.telomere_length = 99
    /\ genome.p53_copies = 1
    /\ ret.ok = FALSE /\ ret.err = "Senescence" /\ ret.calls = <<>>

(***************************************************************************)
(* genome.rs: crispr_join and crispr_delete                                *)
(***************************************************************************)
\* a swap that does not count an edit which leaves the sequence as it was
CrisprJoinSkipsSelfSwap(g, pos1, pos2) ==
    IF pos1 < GENOME_SIZE /\ pos2 < GENOME_SIZE /\ g.data[pos1 + 1] # g.data[pos2 + 1]
    THEN CalculateConsciousness(Rehash(
            [ g EXCEPT !.data[pos1 + 1] = g.data[pos2 + 1],
                       !.data[pos2 + 1] = g.data[pos1 + 1],
                       !.mutations = @ + 1 ]))
    ELSE g

\* Genome::crispr_join(pos1, pos2): data.swap(pos1, pos2), positions 0-based
CrisprJoin(g, pos1, pos2) ==
    IF pos1 < GENOME_SIZE /\ pos2 < GENOME_SIZE
    THEN CalculateConsciousness(Rehash(
            [ g EXCEPT !.data = [ i \in Positions |->
                                    IF i = pos1 + 1 THEN g.data[pos2 + 1]
                                    ELSE IF i = pos2 + 1 THEN g.data[pos1 + 1]
                                    ELSE g.data[i] ],
                       !.mutations = @ + 1 ]))
    ELSE g

\* Genome::crispr_delete(position); random is what Tetrad::random() returned
CrisprDelete(g, position, random) ==
    IF position < GENOME_SIZE
    THEN CalculateConsciousness(Rehash(
            [ g EXCEPT !.data[position + 1] = random, !.mutations = @ + 1 ]))
    ELSE g

(***************************************************************************)
(* Specification of one entity edited by the three CRISPR methods; ret     *)
(* records the arguments of the last call.                                 *)
(***************************************************************************)
MaxCrisprEdits == 2
CrisprOps == { "crispr_splice", "crispr_join", "crispr_delete" }

EditInit ==
    /\ \E s \in ScoreSequences, p \in ScoreP53 : genome = Build(s, p, TELOMERE_MAX)
    /\ partner = NoGenome
    /\ lastOp = "build"
    /\ ret = "none"
    /\ engine = EngineNew /\ trail = <<>>
    /\ store = <<>> /\ exchange = ExchangeNew /\ daemon = DaemonNew /\ appEngine = EngineNew /\ sync = SyncNew

EditSplice ==
    /\ genome.mutations < MaxCrisprEdits
    /\ \E position \in EditPositions, tetrad \in Tetrad :
          /\ genome' = CrisprSplice(genome, position, tetrad)
          /\ ret' = [ position |-> position, tetrad |-> tetrad ]
    /\ lastOp' = "crispr_splice"
    /\ UNCHANGED <<partner, rotVars, worldVars>>

EditJoin ==
    /\ genome.mutations < MaxCrisprEdits
    /\ \E pos1 \in EditPositions, pos2 \in EditPositions :
          /\ genome' = CrisprJoin(genome, pos1, pos2)
          /\ ret' = [ pos1 |-> pos1, pos2 |-> pos2 ]
    /\ lastOp' = "crispr_join"
    /\ UNCHANGED <<partner, rotVars, worldVars>>

EditDelete ==
    /\ genome.mutations < MaxCrisprEdits
    /\ \E position \in EditPositions, random \in Tetrad :
          /\ genome' = CrisprDelete(genome, position, random)
          /\ ret' = [ position |-> position, random |-> random ]
    /\ lastOp' = "crispr_delete"
    /\ UNCHANGED <<partner, rotVars, worldVars>>

EditNext == EditSplice \/ EditJoin \/ EditDelete

SpecEdit == EditInit /\ [][EditNext]_vars

(***************************************************************************)
(* C21: a crispr_splice or crispr_delete whose position is 27 or more, and *)
(* a crispr_join with either position 27 or more, leaves the entity        *)
(* exactly as it was (sequence, mutations, hash, consciousness); with      *)
(* every position below 27 the call adds exactly 1 to mutations, also when *)
(* the sequence it leaves is the one it found, and touches no field other  *)
(* than data, mutations, hash and consciousness.                           *)
(***************************************************************************)
C21_EditInRangeOrNoEffect ==
    [][ lastOp' \in CrisprOps =>
          LET in_range == IF lastOp' = "crispr_join"
                          THEN ret'.pos1 < GENOME_SIZE /\ ret'.pos2 < GENOME_SIZE
                          ELSE ret'.position < GENOME_SIZE
          IN  IF in_range
              THEN /\ genome'.mutations = genome.mutations + 1
                   /\ genome' = [ genome EXCEPT !.data = genome'.data,
                                                !.mutations = genome'.mutations,
                                                !.hash = genome'.hash,
                                                !.consciousness = genome'.consciousness ]
              ELSE genome' = genome ]_vars

\* a swap of position 0 with itself: same sequence, mutations counted
C21_Witness ==
    /\ lastOp = "crispr_join"
    /\ ret.pos1 = 0 /\ ret.pos2 = 0
    /\ genome.data = Mixed
    /\ genome.mutations = 1

\* an out-of-range splice after one counted edit
C21_WitnessOutOfRange ==
    /\ lastOp = "crispr_splice"
    /\ ret.position = GENOME_SIZE
    /\ genome.mutations = 1

(***************************************************************************)
(* C22: in every meiosis the crossover list has between 1 and 4 entries,   *)
(* is strictly increasing, keeps a gap of at least 5 between consecutive   *)
(* points and between position 0 and the first point, and holds only       *)
(* positions in 1..26.                                                     *)
(***************************************************************************)
C22_CrossoverListShape ==
    lastOp = "meiosis" =>
        LET cp == ret.crossover_points
        IN  /\ Len(cp) >= 1 /\ Len(cp) <= 4
            /\ \A k \in 1..Len(cp) : cp[k] >= 1 /\ cp[k] <= 26
            /\ cp[1] - 0 >= 5
            /\ \A k \in 2..Len(cp) : cp[k] > cp[k - 1] /\ cp[k] - cp[k - 1] >= 5

\* four points at the minimal gap, the last one drawn from 20..25
C22_Witness ==
    /\ lastOp = "meiosis"
    /\ ret.crossover_points = <<5, 10, 15, 20>>

\* the latest first point, after which the loop breaks with one entry
C22_WitnessBreak ==
    /\ lastOp = "meiosis"
    /\ ret.crossover_points = <<25>>

(***************************************************************************)
(* C23: the offspring of meiosis has p53_copies equal to the larger of the *)
(* parents' p53_copies, telomere_length 15000, division_count 0 and        *)
(* mutations 1, whether or not the post-meiotic mutation was applied; the  *)
(* call changes neither parent.                                            *)
(***************************************************************************)
C23_OffspringFields ==
    [][ lastOp' = "meiosis" =>
          /\ ret'.genome.p53_copies >= genome.p53_copies
          /\ ret'.genome.p53_copies >= partner.p53_copies
          /\ ret'.genome.p53_copies \in { genome.p53_copies, partner.p53_copies }
          /\ ret'.genome.telomere_length = 15000
          /\ ret'.genome.division_count = 0
          /\ ret'.genome.mutations = 1
          /\ genome' = genome /\ partner' = partner
      ]_vars

\* the post-meiotic mutation was applied, the parents differ in every field
C23_Witness ==
    /\ lastOp = "meiosis"
    /\ ret.post.hit
    /\ genome.p53_copies = DEFAULT_P53 /\ partner.p53_copies = 40
    /\ partner.telomere_length = 99 /\ partner.division_count = 1
    /\ partner.mutations = MeiosisRowMutations
    /\ ret.genome.p53_copies = 40 /\ ret.genome.mutations = 1

(***************************************************************************)
(* Specification of suggested_rotation on a fresh entity, for every pair   *)
(* of counts (t, g) a 27-symbol sequence can have.                         *)
(***************************************************************************)
\* the sequence of t T's, then g G's, then A's
SequenceWithCounts(t, g) ==
    [ i \in Positions |-> IF i <= t THEN "T" ELSE IF i <= t + g THEN "G" ELSE "A" ]

SignalInit ==
    /\ \E t \in 0..GENOME_SIZE :
          \E g \in 0..(GENOME_SIZE - t) : genome = GenomeNew(SequenceWithCounts(t, g))
    /\ partner = NoGenome
    /\ lastOp = "new"
    /\ ret = "none"
    /\ engine = EngineNew /\ trail = <<>>
    /\ store = <<>> /\ exchange = ExchangeNew /\ daemon = DaemonNew /\ appEngine = EngineNew /\ sync = SyncNew

CallSuggestedRotation ==
    /\ lastOp = "new"
    /\ ret' = SuggestedRotation(genome)
    /\ lastOp' = "suggested_rotation"
    /\ UNCHANGED <<genome, partner, rotVars, worldVars>>

SignalNext == CallSuggestedRotation

SpecSignal == SignalInit /\ [][SignalNext]_vars

(***************************************************************************)
(* C24: suggested_rotation is a total function of the counts t of T and g  *)
(* of G: Rot0 (Active) when g = 0, t = 0 included, or 2t > 3g; otherwise   *)
(* Rot90 (Balance) when 5t > 4g; otherwise Rot180 (Storage) when 2t < g;   *)
(* otherwise Rot270 (Mutation).  The boundary ratios 1.5, 0.8 and 0.5 give *)
(* Rot90, Rot270 and Rot270.                                               *)
(***************************************************************************)
C24_SuggestedStateByCounts ==
    lastOp = "suggested_rotation" =>
        LET t == CountOf(genome.data, {"T"})
            g == CountOf(genome.data, {"G"})
        IN  /\ ret \in DynamicRotation
            /\ (g = 0 \/ 2 * t > 3 * g) => ret = "Rot0"
            /\ (g > 0 /\ 2 * t <= 3 * g /\ 5 * t > 4 * g) => ret = "Rot90"
            /\ (g > 0 /\ 5 * t <= 4 * g /\ 2 * t < g) => ret = "Rot180"
            /\ (g > 0 /\ 5 * t <= 4 * g /\ 2 * t >= g) => ret = "Rot270"
            /\ (g > 0 /\ 2 * t = 3 * g) => ret = "Rot90"
            /\ (g > 0 /\ 5 * t = 4 * g) => ret = "Rot270"
            /\ (g > 0 /\ 2 * t = g) => ret = "Rot270"

\* the boundary ratio 1.5: t = 3, g = 2
C24_Witness ==
    /\ lastOp = "suggested_rotation"
    /\ CountOf(genome.data, {"T"}) = 3 /\ CountOf(genome.data, {"G"}) = 2
    /\ ret = "Rot90"

\* the boundary ratio 0.8 at its largest counts: t = 12, g = 15
C24_WitnessBalanceEdge ==
    /\ lastOp = "suggested_rotation"
    /\ CountOf(genome.data, {"T"}) = 12 /\ CountOf(genome.data, {"G"}) = 15
    /\ ret = "Rot270"

\* neither T nor G in the sequence
C24_WitnessNoSignal ==
    /\ lastOp = "suggested_rotation"
    /\ CountOf(genome.data, {"T"}) = 0 /\ CountOf(genome.data, {"G"}) = 0
    /\ ret = "Rot0"

(***************************************************************************)
(* C25: for every successful evolve, the result's p53_copies is the        *)
(* input's minus 1 exactly when p53_lost is flagged and equal to the       *)
(* input's otherwise, so never larger and never below 0; the reported      *)
(* telomere_loss is input telomere_length minus result telomere_length and *)
(* lies in 50..149; success is flagged exactly when the result's           *)
(* consciousness is at least the input's.                                  *)
(***************************************************************************)
C25_OutcomeReport ==
    (lastOp = "evolve" /\ ret.ok) =>
        /\ ret.result.p53_lost \in BOOLEAN
        /\ ret.genome.p53_copies =
              (IF ret.result.p53_lost THEN genome.p53_copies - 1 ELSE genome.p53_copies)
        /\ ret.genome.p53_copies >= 0
        /\ ret.genome.p53_copies <= genome.p53_copies
        /\ ret.result.telomere_loss = genome.telomere_length - ret.genome.telomere_length
        /\ ret.result.telomere_loss >= 50 /\ ret.result.telomere_loss < 150
        /\ ret.result.original_consciousness = genome.consciousness
        /\ ret.result.new_consciousness = ret.genome.consciousness
        /\ ret.result.success = (ret.genome.consciousness >= genome.consciousness)

\* the last copy is lost and the draw 149 is cut to the 100 that was left
C25_Witness ==
    /\ lastOp = "evolve" /\ ret.ok
    /\ ret.result.p53_lost
    /\ genome.p53_copies = 1 /\ ret.genome.p53_copies = 0
    /\ genome.telomere_length = 100 /\ ret.genome.telomere_length = 0
    /\ ret.result.telomere_loss = 100

\* a degradation with no copy lost
C25_WitnessDegraded ==
    /\ lastOp = "evolve" /\ ret.ok
    /\ ~ret.result.p53_lost /\ ~ret.result.success
    /\ ret.genome.p53_copies = DEFAULT_P53
    /\ ret.result.telomere_loss = 50

(***************************************************************************)
(* C26: a successful evolve changes the sequence by the footprint of one   *)
(* operator.  Inversion reverses one contiguous window of length 2..7      *)
(* inside 0..26 and leaves every other position as it was;                 *)
(* HollidayJunction complements exactly the positions p, p+1, p+2 for some *)
(* p with 5 <= p < 22; every other operator changes at most 2 positions.   *)
(* The sequence keeps its 27 positions.                                    *)
(***************************************************************************)
C26_OperatorFootprint ==
    (lastOp = "evolve" /\ ret.ok) =>
        LET old == genome.data
            new == ret.genome.data
            changed == { i \in 0..26 : old[i + 1] # new[i + 1] }
        IN  /\ Len(new) = 27
            /\ DOMAIN new = 1..27
            /\ ret.result.operator_used \in MutationOperator
            /\ ret.result.operator_used = "Inversion" =>
                  \E s \in 0..26 : \E len \in 2..7 :
                     /\ s + len - 1 <= 26
                     /\ \A i \in 0..26 :
                           new[i + 1] = IF s <= i /\ i <= s + len - 1
                                        THEN old[(s + (s + len - 1) - i) + 1]
                                        ELSE old[i + 1]
            /\ ret.result.operator_used = "HollidayJunction" =>
                  \E p \in 5..21 :
                     /\ changed = { p, p + 1, p + 2 }
                     /\ \A i \in changed :
                           new[i + 1] = (CASE old[i + 1] = "A" -> "T"
                                           [] old[i + 1] = "T" -> "A"
                                           [] old[i + 1] = "G" -> "C"
                                           [] old[i + 1] = "C" -> "G")
            /\ ret.result.operator_used \notin { "Inversion", "HollidayJunction" } =>
                  Cardinality(changed) <= 2

\* an inversion whose window starts at 0 and moved the first symbol
C26_Witness ==
    /\ lastOp = "evolve" /\ ret.ok
    /\ ret.result.operator_used = "Inversion"
    /\ genome.data = Mixed
    /\ ret.genome.data[1] = "C" /\ ret.genome.data[4] = "A"

\* a junction at the last start position, 21
C26_WitnessJunction ==
    /\ lastOp = "evolve" /\ ret.ok
    /\ ret.result.operator_used = "HollidayJunction"
    /\ { i \in 0..26 : genome.data[i + 1] # ret.genome.data[i + 1] } = { 21, 22, 23 }

\* a swap that changed two positions
C26_WitnessSwap ==
    /\ lastOp = "evolve" /\ ret.ok
    /\ ret.result.operator_used = "Translocation"
    /\ Cardinality({ i \in 0..26 : genome.data[i + 1] # ret.genome.data[i + 1] }) = 2

(***************************************************************************)
(* C27: in every state an engine can reach through rotate, rotate_to,      *)
(* increment_active and decrement_active in any order, total_rotations is  *)
(* the sum of the four per-state counts; a rotate() adds 1 to the count of *)
(* the state it arrives at and leaves the other three counts as they were. *)
(***************************************************************************)
C27_TotalIsSumOfCounts ==
    /\ engine.total_rotations = engine.rot0_count + engine.rot90_count
                                + engine.rot180_count + engine.rot270_count
    /\ lastOp = "rotate" =>
          LET before == trail[Len(trail)]
              CountAt(e, r) == CASE r = "Rot0"   -> e.rot0_count
                                 [] r = "Rot90"  -> e.rot90_count
                                 [] r = "Rot180" -> e.rot180_count
                                 [] r = "Rot270" -> e.rot270_count
          IN  /\ ret = engine.current
              /\ \A r \in DynamicRotation :
                    CountAt(engine, r) = CountAt(before, r) + (IF r = ret THEN 1 ELSE 0)

\* a rotate() arriving in Rot0 after rotate_to and active-count calls
C27_Witness ==
    /\ lastOp = "rotate" /\ ret = "Rot0"
    /\ Len(trail) = 1
    /\ engine.active_genomes = 2
    /\ engine.rot0_count = 2 /\ engine.total_rotations = 6

C29_OverrideDispatchesSuccessor ==
    daemon.rotated =>
        /\ daemon.followed =>
              /\ daemon.leader = "found"
              /\ daemon.afterTg.current = daemon.suggested
              /\ daemon.dispatched = RotNext(daemon.suggested)
              /\ daemon.dispatched # daemon.suggested
              /\ engine.total_rotations - daemon.tickStart.total_rotations >= 1
              /\ engine.total_rotations - daemon.tickStart.total_rotations <= 4
        /\ daemon.leader \in { "err", "empty" } =>
              /\ ~daemon.followed
              /\ daemon.afterTg = daemon.tickStart

\* the longest override: three forced steps, then the scheduled rotation
C29_Witness ==
    /\ daemon.rotated /\ daemon.followed /\ daemon.forced
    /\ daemon.suggested = "Rot90" /\ daemon.dispatched = "Rot180"
    /\ engine.total_rotations = daemon.tickStart.total_rotations + 4

\* the draw came out below prob with the engine already in the suggested state
C29_WitnessAlreadyThere ==
    /\ daemon.rotated /\ daemon.followed /\ ~daemon.forced
    /\ engine.total_rotations = daemon.tickStart.total_rotations + 1

\* the fetch failed in a tick after the first
C29_WitnessFetchFailed ==
    /\ daemon.rotated /\ daemon.leader = "err"
    /\ daemon.ticks > 1

(***************************************************************************)
(* The lock operations of each tick and each request, in program order.    *)
(* A release is the explicit drop(..) or the end of the scope of the       *)
(* guard; temporaries are released at the end of their statement.          *)
(***************************************************************************)
Acq(name, mode) == [ op |-> "acquire", lock |-> name, mode |-> mode ]
Rel(name) == [ op |-> "release", lock |-> name, mode |-> "none" ]

\* apply_tg_influence: engine.write() only when the draw came out below prob
TgInfluenceLocks ==
    { <<>>, << Acq("engine", "write"), Rel("engine") >> }

\* run: engine.write() for rotate(), drop(engine), engine.read() inside info!
ScheduledRotationLocks ==
    << Acq("engine", "write"), Rel("engine"), Acq("engine", "read"), Rel("engine") >>

HandleComputeLocks == << Acq("engine", "write"), Rel("engine") >>
HandleBalanceLocks == << Acq("exchange", "read"), Rel("exchange") >>
HandleStorageSyncLocks == << >>

\* handle_evolution: nothing without a genome; engine.read() around evolve
\* and store_genome; exchange.write() inside it for a stored degradation
HandleEvolutionLocks ==
    { << >>,
      << Acq("engine", "read"), Rel("engine") >>,
      << Acq("engine", "read"), Acq("exchange", "write"),
         Rel("exchange"), Rel("engine") >> }

DaemonTickLocks ==
    { tg \o ScheduledRotationLocks \o h :
        tg \in TgInfluenceLocks,
        h \in { HandleComputeLocks, HandleBalanceLocks, HandleStorageSyncLocks }
              \cup HandleEvolutionLocks }

\* evolve_genome that takes the exchange before the engine on the error path
EvolveGenomeLocksExchangeFirst ==
    { << Acq("exchange", "write"), Acq("engine", "read"),
         Rel("engine"), Rel("exchange") >>,
      << Acq("engine", "read"), Rel("engine") >>,
      << Acq("engine", "read"), Rel("engine"),
         Acq("exchange", "write"), Rel("exchange") >> }

\* evolve_genome after load_genome: evolve Err burns under both guards;
\* evolve Ok drops the engine guard, then store Err after a success, or one
\* exchange.write() block (the degradation burn, or the reward after store)
EvolveGenomeLocks ==
    { << Acq("engine", "read"), Acq("exchange", "write"),
         Rel("exchange"), Rel("engine") >>,
      << Acq("engine", "read"), Rel("engine") >>,
      << Acq("engine", "read"), Rel("engine"),
         Acq("exchange", "write"), Rel("exchange") >> }

RotationStatsLocks == << Acq("engine", "read"), Rel("engine") >>
ManualRotateLocks == << Acq("engine", "write"), Rel("engine") >>
RsmManualBurnLocks == << Acq("exchange", "write"), Rel("exchange") >>
ListBurnsLocks == << Acq("exchange", "read"), Rel("exchange") >>

RequestLocks ==
    EvolveGenomeLocks
    \cup { RotationStatsLocks, ManualRotateLocks, RsmManualBurnLocks, ListBurnsLocks }

PathsOf(t) == IF t = "daemon" THEN DaemonTickLocks ELSE RequestLocks

(***************************************************************************)
(* tokio::sync::RwLock: many readers or one writer, waiters served in the  *)
(* order they arrived.                                                     *)
(***************************************************************************)
NextOp(s, t) == s.path[t][s.pc[t]]
NextLock(s, t) == << OwnerOf(t), NextOp(s, t).lock >>

HoldersOf(s, l) ==
    UNION { { [ task |-> t, mode |-> s.holds[t][i].mode ] :
                i \in { j \in DOMAIN s.holds[t] : s.holds[t][j].lock = l } } :
            t \in Tasks }

Free(s, l, mode) ==
    IF mode = "write" THEN HoldersOf(s, l) = {}
    ELSE \A h \in HoldersOf(s, l) : h.mode = "read"

Queued(s, t, l) == \E i \in DOMAIN s.queue[l] : s.queue[l][i].task = t

Waiting(s, t) == \E l \in Locks : Queued(s, t, l)

\* the task has passed its operation at pc; after the last one the tick or
\* request is over
Advance(s, t) ==
    IF s.pc[t] = Len(s.path[t])
    THEN [ s EXCEPT !.pc[t] = 0, !.path[t] = <<>> ]
    ELSE [ s EXCEPT !.pc[t] = @ + 1 ]

TakeLock(s, t) ==
    Advance([ s EXCEPT !.holds[t] = Append(@, [ lock |-> NextLock(s, t),
                                                mode |-> NextOp(s, t).mode ]) ], t)

DropLock(s, t) ==
    LET Others(h) == h.lock # NextLock(s, t)
    IN  Advance([ s EXCEPT !.holds[t] = SelectSeq(@, Others) ], t)

\* whether the task can take a step of its tick or request now
CanStep(s, t) ==
    /\ s.pc[t] # 0
    /\ \/ NextOp(s, t).op = "release"
       \/ ~Queued(s, t, NextLock(s, t))
       \/ /\ Head(s.queue[NextLock(s, t)]).task = t
          /\ Free(s, NextLock(s, t), NextOp(s, t).mode)

Deadlocked(s) ==
    /\ \E t \in Tasks : Waiting(s, t)
    /\ \A t \in Tasks : ~CanStep(s, t)

(***************************************************************************)
(* Specification of the locking of `divine server`: the daemon ticks on    *)
(* the kernel's locks while up to three requests at a time run on those of *)
(* the AppState.                                                           *)
(***************************************************************************)
LocksInit ==
    /\ sync = SyncNew
    /\ engine = EngineNew /\ trail = <<>>
    /\ genome = NoGenome /\ lastOp = "none" /\ ret = "none" /\ partner = NoGenome
    /\ store = <<>> /\ exchange = ExchangeNew /\ daemon = DaemonNew
    /\ appEngine = EngineNew

\* interval.tick() fires, or a request arrives
SyncStart ==
    /\ \E t \in Tasks : \E p \in PathsOf(t) :
          /\ sync.pc[t] = 0
          /\ sync' = [ sync EXCEPT !.pc[t] = 1, !.path[t] = p ]
    /\ UNCHANGED <<rotVars, genomeVars, store, exchange, daemon, appEngine>>

\* read().await or write().await returns at once
SyncAcquire ==
    /\ \E t \in Tasks :
          /\ sync.pc[t] # 0
          /\ NextOp(sync, t).op = "acquire"
          /\ ~Queued(sync, t, NextLock(sync, t))
          /\ sync.queue[NextLock(sync, t)] = <<>>
          /\ Free(sync, NextLock(sync, t), NextOp(sync, t).mode)
          /\ sync' = TakeLock(sync, t)
    /\ UNCHANGED <<rotVars, genomeVars, store, exchange, daemon, appEngine>>

\* read().await or write().await suspends the task behind the waiters
SyncEnqueue ==
    /\ \E t \in Tasks :
          /\ sync.pc[t] # 0
          /\ NextOp(sync, t).op = "acquire"
          /\ ~Queued(sync, t, NextLock(sync, t))
          /\ ~( /\ sync.queue[NextLock(sync, t)] = <<>>
                /\ Free(sync, NextLock(sync, t), NextOp(sync, t).mode) )
          /\ sync' = [ sync EXCEPT !.queue[NextLock(sync, t)] =
                          Append(@, [ task |-> t, mode |-> NextOp(sync, t).mode ]) ]
    /\ UNCHANGED <<rotVars, genomeVars, store, exchange, daemon, appEngine>>

\* the first waiter is given the lock
SyncGrant ==
    /\ \E t \in Tasks :
          /\ sync.pc[t] # 0
          /\ Queued(sync, t, NextLock(sync, t))
          /\ Head(sync.queue[NextLock(sync, t)]).task = t
          /\ Free(sync, NextLock(sync, t), NextOp(sync, t).mode)
          /\ sync' = TakeLock([ sync EXCEPT !.queue[NextLock(sync, t)] = Tail(@) ], t)
    /\ UNCHANGED <<rotVars, genomeVars, store, exchange, daemon, appEngine>>

\* a guard is dropped
SyncRelease ==
    /\ \E t \in Tasks :
          /\ sync.pc[t] # 0
          /\ NextOp(sync, t).op = "release"
          /\ sync' = DropLock(sync, t)
    /\ UNCHANGED <<rotVars, genomeVars, store, exchange, daemon, appEngine>>

LocksNext == SyncStart \/ SyncAcquire \/ SyncEnqueue \/ SyncGrant \/ SyncRelease

SpecLocks == LocksInit /\ [][LocksNext]_vars

(***************************************************************************)
(* C30: the daemon and the handlers cannot deadlock on the engine lock and *)
(* the exchange lock: a task that holds both took the engine lock first,   *)
(* no task asks for the engine lock while it holds the exchange lock,      *)
(* every lock taken in a tick or a request is released when that tick or   *)
(* request ends, and whenever a task waits for a lock some task in a tick  *)
(* or request can go on.                                                   *)
(***************************************************************************)
C30_EngineBeforeExchange ==
    /\ \A t \in Tasks :
          /\ \A i \in DOMAIN sync.holds[t] : \A j \in DOMAIN sync.holds[t] :
                ( sync.holds[t][i].lock[2] = "exchange"
                  /\ sync.holds[t][j].lock[2] = "engine" ) => j < i
          /\ ( sync.pc[t] # 0 /\ NextOp(sync, t).op = "acquire"
               /\ NextOp(sync, t).lock = "engine" ) =>
                \A i \in DOMAIN sync.holds[t] : sync.holds[t][i].lock[2] # "exchange"
          /\ sync.pc[t] = 0 => ( sync.holds[t] = <<>> /\ ~Waiting(sync, t) )
    /\ ~Deadlocked(sync)

\* a request holds the engine and then the exchange while the other request
\* waits for the engine, and the daemon holds its own pair
C30_Witness ==
    /\ Len(sync.holds["request1"]) = 2
    /\ sync.holds["request1"][1] = [ lock |-> << "app", "engine" >>, mode |-> "read" ]
    /\ sync.holds["request1"][2] = [ lock |-> << "app", "exchange" >>, mode |-> "write" ]
    /\ Queued(sync, "request2", << "app", "engine" >>)
    /\ Len(sync.holds["daemon"]) = 2

\* a request waits for the exchange another request holds, holding the engine
C30_WitnessWaitsForExchange ==
    /\ Queued(sync, "request1", << "app", "exchange" >>)
    /\ Len(sync.holds["request1"]) = 1
    /\ Len(sync.holds["request2"]) = 1
    /\ sync.holds["request2"][1].lock = << "app", "exchange" >>

=============================================================================
